---- MODULE Spec2Model ----
(***************************************************************************)
(* Device session registry and command dispatch of server_cloud.py.        *)
(*                                                                         *)
(* The server is one asyncio event loop: a coroutine runs without          *)
(* interruption from one await to the next.  Every action below is one     *)
(* such uninterrupted block of websocket_handler or send_command.  The     *)
(* awaits that separate the blocks are ws.receive() (line 171), each       *)
(* ws.send_str() of the backlog replay (line 197) and the receive inside   *)
(* "async for msg in ws" (line 202).  The except/finally blocks contain    *)
(* no await, so they belong to the block that raised.                      *)
(***************************************************************************)
EXTENDS Naturals, Sequences, FiniteSets, TLC

\* Bounds of the model.
MaxConns == 2    \* websocket connections open at the same time
MaxCmds == 3     \* operator commands dispatched during a run

Conns == 1..MaxConns

\* target_ws = None (line 68); connections are numbered from 1.
None == 0

\* device_id = 'unknown' before registration (line 167).
Unknown == "unknown"

\* Identifiers a device supplies in its registration frame.
ExplicitIds == {"X"}

\* f"device_{len(connected_clients)}" (line 177).
FallbackId(n) == "device_" \o ToString(n)

\* Identifiers an operator addresses commands to.
DeviceIds == ExplicitIds \cup {FallbackId(0)}

\* Inbound text frames of the routing loop, by what json.loads and the
\* type dispatch make of them (lines 203-233).
SinkFrames == {"screen_capture", "notification", "flashlight", "command_response"}
MalformedFrames == {"invalid_json", "non_object", "unknown_type", "missing_type",
                    "screen_capture_undecodable", "registration_again"}
TextFrames == SinkFrames \cup MalformedFrames

VARIABLES
    pc,                 \* position of each connection's websocket_handler
    device_id,          \* the handler's local device_id
    connected_clients,  \* the registry, in insertion order (a Python dict)
    device_commands,    \* the command queue: device_id -> list of commands
    iter,               \* the handler's iteration over device_commands[device_id]
    sent,               \* frames written to a live connection's channel, in order
    closed,             \* ws.close() was called on the connection
    nextCmd,            \* number of the command the next send_command call carries
    lastCall,           \* the most recent send_command call: its device_id and response
    registrations,      \* times the connection was inserted into the registry
    removals,           \* times the finally block deleted the connection's entry
    exit,               \* how the handler ended
    lastFrame           \* the most recent frame a routing loop handled

vars == <<pc, device_id, connected_clients, device_commands, iter, sent, closed, nextCmd,
          lastCall, registrations, removals, exit, lastFrame>>

(***************************************************************************)
(* The registry: connected_clients[ws] = {'device_id': ...}                *)
(***************************************************************************)

\* ws in connected_clients (line 243).
InRegistry(cc, ws) == \E i \in 1..Len(cc) : cc[i].ws = ws

\* connected_clients[ws] = {...} (lines 179-183); ws is a fresh key.
RegistryInsert(cc, ws, dev) == Append(cc, [ws |-> ws, device_id |-> dev])

\* A delete that removes every session of the connection's device_id.
RegistryDeleteByDevice(cc, ws) ==
    LET dev == cc[CHOOSE i \in 1..Len(cc) : cc[i].ws = ws].device_id
    IN SelectSeq(cc, LAMBDA e : e.device_id # dev)

\* del connected_clients[ws] (line 244).
RegistryDelete(cc, ws) == SelectSeq(cc, LAMBDA e : e.ws # ws)

\* A finally block that leaves the registry as it is.
FinallyKeepsEntry(cc, ws) == cc

\* A finally block that empties the registry.
FinallyClearsRegistry(cc, ws) == <<>>

\* finally: if ws in connected_clients: del connected_clients[ws] (lines 242-244).
Finally(cc, ws) == IF InRegistry(cc, ws) THEN RegistryDelete(cc, ws) ELSE cc

\* A lookup that finds no session.
LookupNothing(cc, dev) == None

\* The lookup loop of send_command (lines 68-72): the first entry, in
\* insertion order, whose device_id matches; None when there is none.
Lookup(cc, dev) ==
    IF \E i \in 1..Len(cc) : cc[i].device_id = dev
    THEN cc[CHOOSE i \in 1..Len(cc) :
                /\ cc[i].device_id = dev
                /\ \A j \in 1..(i - 1) : cc[j].device_id # dev].ws
    ELSE None

\* The listing of list_devices (lines 51-56): one summary per entry.
list_devices(cc) == [i \in 1..Len(cc) |-> cc[i].device_id]

\* Sessions registered under a device_id.
SessionsOf(cc, dev) == {i \in 1..Len(cc) : cc[i].device_id = dev}

(***************************************************************************)
(* The command queue: device_commands[device_id] = [commands]              *)
(***************************************************************************)

\* device_commands = {} (line 26).
EmptyQueue == [d \in {} |-> <<>>]

\* An enqueue that puts the command in front of the backlog.
EnqueueAtHead(dc, dev, cmd) ==
    IF dev \in DOMAIN dc
    THEN [dc EXCEPT ![dev] = <<cmd>> \o @]
    ELSE [d \in DOMAIN dc \cup {dev} |-> IF d = dev THEN <<cmd>> ELSE dc[d]]

\* Lines 76-82: create the list if absent, then append.
Enqueue(dc, dev, cmd) ==
    IF dev \in DOMAIN dc
    THEN [dc EXCEPT ![dev] = Append(@, cmd)]
    ELSE [d \in DOMAIN dc \cup {dev} |-> IF d = dev THEN <<cmd>> ELSE dc[d]]

\* A replay that leaves the backlog in the queue.
QueueKeep(dc, dev) == dc

\* del device_commands[device_id] (line 198), for a key that is present.
QueueDelete(dc, dev) == [d \in DOMAIN dc \ {dev} |-> dc[d]]

\* A replay loop that walks the backlog from its newest command.
ReplayItemNewestFirst(list, k) == list[Len(list) + 1 - k]

\* The command the replay loop sends at its k-th iteration (line 190).
ReplayItem(list, k) == list[k]

\* The frame send_str writes: a remote_command carrying the command
\* (lines 89-94 and 191-196), tagged with the code path that wrote it.
Frame(cmd, via) == [cmd |-> cmd, via |-> via]

\* ws.send_str appends the frame to what the channel has been sent.
Write(channel, frame) == Append(channel, frame)

NoIter == [list |-> <<>>, idx |-> 0]
NoFrame == [ws |-> None, sink |-> "none", afterBad |-> FALSE]

\* A send_command request (lines 62-65) joined to the status of its
\* response (lines 83-86, 98, 102).
Call(dev, status) == [device_id |-> dev, status |-> status]
NoCall == Call(Unknown, "none")

Init ==
    /\ pc = [c \in Conns |-> "idle"]
    /\ device_id = [c \in Conns |-> Unknown]
    /\ connected_clients = <<>>
    /\ device_commands = EmptyQueue
    /\ iter = [c \in Conns |-> NoIter]
    /\ sent = [c \in Conns |-> <<>>]
    /\ closed = [c \in Conns |-> FALSE]
    /\ nextCmd = 1
    /\ lastCall = NoCall
    /\ registrations = [c \in Conns |-> 0]
    /\ removals = [c \in Conns |-> 0]
    /\ exit = [c \in Conns |-> "none"]
    /\ lastFrame = NoFrame

(***************************************************************************)
(* websocket_handler                                                       *)
(***************************************************************************)

\* Lines 163-171: a new connection is prepared and its handler awaits the
\* first frame.  The connection takes the lowest number that no open
\* connection holds; what is remembered of that number's previous
\* connection is forgotten.
Accept(c) ==
    /\ pc[c] \in {"idle", "done"}
    /\ \A b \in Conns : b < c => pc[b] \notin {"idle", "done"}
    /\ pc' = [pc EXCEPT ![c] = "await"]
    /\ closed' = [closed EXCEPT ![c] = FALSE]
    /\ registrations' = [registrations EXCEPT ![c] = 0]
    /\ removals' = [removals EXCEPT ![c] = 0]
    /\ exit' = [exit EXCEPT ![c] = "none"]
    /\ lastFrame' = IF lastFrame.ws = c THEN NoFrame ELSE lastFrame
    /\ UNCHANGED <<device_id, connected_clients, device_commands, iter, sent, nextCmd,
                   lastCall>>

\* The handler leaves through the finally block (lines 242-247) and
\* returns; cc is the registry at that moment.  The handler's locals and
\* the connection's channel are gone afterwards.
Leave(c, cc, how) ==
    /\ connected_clients' = Finally(cc, c)
    /\ removals' = [removals EXCEPT ![c] = IF InRegistry(cc, c) THEN @ + 1 ELSE @]
    /\ exit' = [exit EXCEPT ![c] = how]
    /\ pc' = [pc EXCEPT ![c] = "done"]
    /\ device_id' = [device_id EXCEPT ![c] = Unknown]
    /\ iter' = [iter EXCEPT ![c] = NoIter]
    /\ sent' = [sent EXCEPT ![c] = <<>>]

\* Line 171 raises asyncio.TimeoutError: no frame within 10 seconds.
HandshakeTimeout(c) ==
    /\ pc[c] = "await"
    /\ Leave(c, connected_clients, "timeout")
    /\ UNCHANGED <<device_commands, closed, nextCmd, lastCall, registrations,
                   lastFrame>>

\* Lines 172-174: the first frame is not a text frame.
HandshakeNonText(c) ==
    /\ pc[c] = "await"
    /\ closed' = [closed EXCEPT ![c] = TRUE]
    /\ Leave(c, connected_clients, "nontext")
    /\ UNCHANGED <<device_commands, nextCmd, lastCall, registrations, lastFrame>>

\* A handler that inserts the session before it parses the first frame.
HandshakeRegistersFirst(c) ==
    /\ pc[c] = "await"
    /\ registrations' = [registrations EXCEPT ![c] = @ + 1]
    /\ Leave(c, RegistryInsert(connected_clients, c, Unknown), "unparsable")
    /\ UNCHANGED <<device_commands, closed, nextCmd, lastCall, lastFrame>>

\* Lines 176-177 raise: json.loads rejects the text, or the parsed value is
\* not an object and has no get.
HandshakeUnparsable(c) ==
    /\ pc[c] = "await"
    /\ Leave(c, connected_clients, "unparsable")
    /\ UNCHANGED <<device_commands, closed, nextCmd, lastCall, registrations,
                   lastFrame>>

\* A fallback that counts the registering session itself.
RegistrationIdOneBased(cc, hasId, given) ==
    IF hasId THEN given ELSE FallbackId(Len(cc) + 1)

\* Line 177: the identifier of the registration message, or the fallback.
RegistrationId(cc, hasId, given) ==
    IF hasId THEN given ELSE FallbackId(Len(cc))

\* One pass of the replay loop body (lines 190-197) by handler c over
\* list, sending its k-th command.
ReplayStep(c, list, k) ==
    /\ sent' = [sent EXCEPT ![c] = Write(@, Frame(ReplayItem(list, k), "drain"))]
    /\ iter' = [iter EXCEPT ![c] = [list |-> list, idx |-> k]]

\* Lines 176-202 up to the first await, all sends succeeding: the
\* registration frame parses, the session is inserted, and if a backlog
\* exists its first command is sent.
Register(c, hasId, given) ==
    /\ pc[c] = "await"
    /\ LET dev == RegistrationId(connected_clients, hasId, given)
       IN /\ device_id' = [device_id EXCEPT ![c] = dev]
          /\ connected_clients' = RegistryInsert(connected_clients, c, dev)
          /\ registrations' = [registrations EXCEPT ![c] = @ + 1]
          /\ IF dev \in DOMAIN device_commands
             THEN /\ ReplayStep(c, device_commands[dev], 1)
                  /\ pc' = [pc EXCEPT ![c] = "drain"]
             ELSE /\ pc' = [pc EXCEPT ![c] = "route"]
                  /\ UNCHANGED <<sent, iter>>
    /\ UNCHANGED <<device_commands, closed, nextCmd, lastCall, removals, exit, lastFrame>>

\* Lines 176-197 and 240-247: as Register, but the first send_str of the
\* replay raises; the handler leaves with the backlog untouched.
RegisterSendFails(c, hasId, given) ==
    /\ pc[c] = "await"
    /\ LET dev == RegistrationId(connected_clients, hasId, given)
       IN /\ dev \in DOMAIN device_commands
          /\ registrations' = [registrations EXCEPT ![c] = @ + 1]
          /\ Leave(c, RegistryInsert(connected_clients, c, dev), "send_failed")
    /\ UNCHANGED <<device_commands, closed, nextCmd, lastCall, lastFrame>>

\* Lines 190-197: the previous send_str returned and the loop has another
\* command, which is sent.
DrainSend(c) ==
    /\ pc[c] = "drain"
    /\ iter[c].idx < Len(iter[c].list)
    /\ ReplayStep(c, iter[c].list, iter[c].idx + 1)
    /\ UNCHANGED <<pc, device_id, connected_clients, device_commands, closed, nextCmd,
                   lastCall, registrations, removals, exit, lastFrame>>

\* Lines 197 and 240-247: send_str raises inside the replay loop.
DrainSendFails(c) ==
    /\ pc[c] = "drain"
    /\ iter[c].idx < Len(iter[c].list)
    /\ Leave(c, connected_clients, "send_failed")
    /\ UNCHANGED <<device_commands, closed, nextCmd, lastCall, registrations,
                   lastFrame>>

\* Lines 198-202: the last send_str returned; the backlog is deleted and
\* the handler enters the routing loop.
DrainFinish(c) ==
    /\ pc[c] = "drain"
    /\ iter[c].idx = Len(iter[c].list)
    /\ device_id[c] \in DOMAIN device_commands
    /\ device_commands' = QueueDelete(device_commands, device_id[c])
    /\ pc' = [pc EXCEPT ![c] = "route"]
    /\ iter' = [iter EXCEPT ![c] = NoIter]
    /\ UNCHANGED <<device_id, connected_clients, sent, closed, nextCmd, lastCall,
                   registrations, removals, exit, lastFrame>>

\* Line 198 raises KeyError: another handler deleted the backlog meanwhile.
DrainKeyError(c) ==
    /\ pc[c] = "drain"
    /\ iter[c].idx = Len(iter[c].list)
    /\ device_id[c] \notin DOMAIN device_commands
    /\ Leave(c, connected_clients, "key_error")
    /\ UNCHANGED <<device_commands, closed, nextCmd, lastCall, registrations,
                   lastFrame>>

\* The sink a text frame reaches (lines 208-228); "none" when the frame is
\* rejected or ignored (lines 230-233 and the missing else branch).
SinkOf(frame) ==
    CASE frame = "screen_capture" -> "media"
      [] frame \in {"notification", "flashlight"} -> "telemetry"
      [] frame = "command_response" -> "response"
      [] OTHER -> "none"

\* A loop body whose except clause catches JSONDecodeError alone.
CaughtJsonOnly(frame) == frame \notin {"non_object", "screen_capture_undecodable"}

\* Lines 204-233: whatever handling a text frame raises (JSONDecodeError
\* at line 205, AttributeError at line 206, a decoding or file error at
\* lines 210-214) is caught by the except clauses inside the loop body.
Caught(frame) == TRUE

\* A routing loop that takes a frame carrying a device_id for a new
\* registration of its session.
RouteTextRehandshake(c, frame) ==
    /\ pc[c] = "route"
    /\ lastFrame' = [ws |-> c, sink |-> SinkOf(frame),
                     afterBad |-> lastFrame.ws = c /\ lastFrame.sink = "none"]
    /\ IF frame = "registration_again"
       THEN /\ device_id' = [device_id EXCEPT ![c] = FallbackId(0)]
            /\ connected_clients' =
                   RegistryInsert(RegistryDelete(connected_clients, c), c, FallbackId(0))
            /\ UNCHANGED <<pc, iter, sent, removals, exit>>
       ELSE UNCHANGED <<pc, device_id, connected_clients, iter, sent, removals, exit>>
    /\ UNCHANGED <<device_commands, closed, nextCmd, lastCall, registrations>>

\* Lines 203-233: one text frame in the routing loop.
RouteText(c, frame) ==
    /\ pc[c] = "route"
    /\ lastFrame' = [ws |-> c, sink |-> SinkOf(frame),
                     afterBad |-> lastFrame.ws = c /\ lastFrame.sink = "none"]
    /\ IF Caught(frame)
       THEN UNCHANGED <<pc, device_id, connected_clients, iter, sent, removals, exit>>
       ELSE Leave(c, connected_clients, "handler_error")
    /\ UNCHANGED <<device_commands, closed, nextCmd, lastCall, registrations>>

\* Lines 234-236: an ERROR message breaks the loop.
RouteError(c) ==
    /\ pc[c] = "route"
    /\ Leave(c, connected_clients, "transport_error")
    /\ UNCHANGED <<device_commands, closed, nextCmd, lastCall, registrations,
                   lastFrame>>

\* Line 202: the peer closed; the iteration over ws ends.
RouteClose(c) ==
    /\ pc[c] = "route"
    /\ Leave(c, connected_clients, "peer_closed")
    /\ UNCHANGED <<device_commands, closed, nextCmd, lastCall, registrations,
                   lastFrame>>

(***************************************************************************)
(* send_command                                                            *)
(***************************************************************************)

\* Lines 67-86: no session has the device_id; the command is queued.
DispatchQueued(dev) ==
    /\ nextCmd <= MaxCmds
    /\ Lookup(connected_clients, dev) = None
    /\ device_commands' = Enqueue(device_commands, dev, nextCmd)
    /\ lastCall' = Call(dev, "queued")
    /\ nextCmd' = nextCmd + 1
    /\ UNCHANGED <<pc, device_id, connected_clients, iter, sent, closed,
                   registrations, removals, exit, lastFrame>>

\* Lines 67-72 and 88-98: a session has the device_id and send_str succeeds.
DispatchSent(dev) ==
    /\ nextCmd <= MaxCmds
    /\ Lookup(connected_clients, dev) # None
    /\ sent' = [sent EXCEPT ![Lookup(connected_clients, dev)] =
           Write(@, Frame(nextCmd, "dispatch"))]
    /\ lastCall' = Call(dev, "sent")
    /\ nextCmd' = nextCmd + 1
    /\ UNCHANGED <<pc, device_id, connected_clients, device_commands, iter, closed,
                   registrations, removals, exit, lastFrame>>

\* Lines 96 and 100-102: send_str raises; the response is an error with
\* status 500 and nothing else happens.
DispatchError(dev) ==
    /\ nextCmd <= MaxCmds
    /\ Lookup(connected_clients, dev) # None
    /\ lastCall' = Call(dev, "error")
    /\ nextCmd' = nextCmd + 1
    /\ UNCHANGED <<pc, device_id, connected_clients, device_commands, iter, sent,
                   closed, registrations, removals, exit, lastFrame>>

(***************************************************************************)
(* Specifications                                                          *)
(***************************************************************************)

\* The steps of websocket_handler other than the handling of a text frame
\* in the routing loop.
Handler ==
    \/ \E c \in Conns : Accept(c)
    \/ \E c \in Conns : HandshakeTimeout(c)
    \/ \E c \in Conns : HandshakeNonText(c)
    \/ \E c \in Conns : HandshakeUnparsable(c)
    \/ \E c \in Conns, hasId \in BOOLEAN, given \in ExplicitIds : Register(c, hasId, given)
    \/ \E c \in Conns, hasId \in BOOLEAN, given \in ExplicitIds :
           RegisterSendFails(c, hasId, given)
    \/ \E c \in Conns : DrainSend(c)
    \/ \E c \in Conns : DrainSendFails(c)
    \/ \E c \in Conns : DrainFinish(c)
    \/ \E c \in Conns : DrainKeyError(c)
    \/ \E c \in Conns : RouteError(c)
    \/ \E c \in Conns : RouteClose(c)

\* The calls of send_command.
Dispatch ==
    \/ \E dev \in DeviceIds : DispatchQueued(dev)
    \/ \E dev \in DeviceIds : DispatchSent(dev)
    \/ \E dev \in DeviceIds : DispatchError(dev)

\* Registry, command queue, dispatch and the life of the handlers.  A text
\* frame handled by a routing loop writes lastFrame and nothing else, so
\* this specification leaves those steps out.
Next ==
    \/ Handler
    \/ Dispatch

Spec == Init /\ [][Next]_vars

\* The handlers with the frames their routing loops handle, from the state
\* in which an operator has queued two commands for a device that is not
\* connected and calls send_command no more.
RouteInit ==
    /\ pc = [c \in Conns |-> "idle"]
    /\ device_id = [c \in Conns |-> Unknown]
    /\ connected_clients = <<>>
    /\ device_commands = Enqueue(Enqueue(EmptyQueue, "X", 1), "X", 2)
    /\ iter = [c \in Conns |-> NoIter]
    /\ sent = [c \in Conns |-> <<>>]
    /\ closed = [c \in Conns |-> FALSE]
    /\ nextCmd = MaxCmds + 1
    /\ lastCall = Call("X", "queued")
    /\ registrations = [c \in Conns |-> 0]
    /\ removals = [c \in Conns |-> 0]
    /\ exit = [c \in Conns |-> "none"]
    /\ lastFrame = NoFrame

RouteNext ==
    \/ Handler
    \/ \E c \in Conns, frame \in TextFrames : RouteText(c, frame)

RouteSpec == RouteInit /\ [][RouteNext]_vars

(***************************************************************************)
(* Properties                                                              *)
(***************************************************************************)

\* The elements of a sequence.
Range(seq) == {seq[i] : i \in 1..Len(seq)}

\* The backlog of a device_id; empty when the queue has no entry for it.
Backlog(dc, dev) == IF dev \in DOMAIN dc THEN dc[dev] ELSE <<>>

\* The commands of the frames of a channel that a replay loop wrote, in
\* the order of their writing.
Replayed(channel) ==
    LET frames == SelectSeq(channel, LAMBDA f : f.via = "drain")
    IN [i \in 1..Len(frames) |-> frames[i].cmd]

\* A sequence of numbers grows from each element to the next.
Increasing(seq) == \A i, j \in 1..Len(seq) : i < j => seq[i] < seq[j]

\* C1 (no-loss law): every command appended to a backlog is accounted for
\* exactly once.  No command is sent by the replay loops of two
\* connections, and a command leaves a backlog only when the replay loop of
\* some connection has sent it.
C1_NoLoss ==
    /\ [](\A k \in 1..MaxCmds :
             Cardinality({c \in Conns : k \in Range(Replayed(sent[c]))}) <= 1)
    /\ [][\A dev \in DOMAIN device_commands : \A k \in Range(device_commands[dev]) :
             k \notin Range(Backlog(device_commands', dev))
                 => \E c \in Conns : k \in Range(Replayed(sent[c]))]_vars

\* C2 (FIFO law): commands queued for a device are replayed to the
\* connection that registers it in the order of their queueing: what a
\* replay loop has sent is at every moment the beginning of the backlog it
\* found at registration, that backlog is in the order of the send_command
\* calls, the loop ends only after all of it was sent, and whatever the
\* connection is sent after its replay ended follows all of it.
C2_Fifo ==
    /\ [](\A c \in Conns :
             /\ pc[c] = "drain" =>
                    Replayed(sent[c]) = SubSeq(iter[c].list, 1, iter[c].idx)
             /\ Increasing(Replayed(sent[c])))
    /\ [][\A c \in Conns :
             /\ (pc[c] = "await" /\ pc'[c] = "drain") =>
                    iter'[c].list = Backlog(device_commands, device_id'[c])
             /\ (pc[c] = "drain" /\ pc'[c] = "route") =>
                    Replayed(sent'[c]) = iter[c].list
             /\ (pc[c] = "route" /\ pc'[c] = "route") =>
                    /\ Len(sent'[c]) >= Len(sent[c])
                    /\ SubSeq(sent'[c], 1, Len(sent[c])) = sent[c]
                    /\ Replayed(sent'[c]) = Replayed(sent[c])]_vars

\* Three commands queued for a device were replayed, in their order, to the
\* connection that registered it, whose replay has ended.
C2_Witness ==
    \E c \in Conns :
        /\ pc[c] = "route"
        /\ sent[c] = <<Frame(1, "drain"), Frame(2, "drain"), Frame(3, "drain")>>

\* C3 (registry exclusivity): in every state at most one session is
\* registered per device_id, so that of two connections that registered the
\* same device_id only one is left in the registry.
C3_Exclusive ==
    \A i, j \in 1..Len(connected_clients) :
        connected_clients[i].device_id = connected_clients[j].device_id => i = j

\* C4 (send failure during dispatch): when send_command finds a session for
\* the device_id and the send on its channel fails, so that nothing is
\* written, the session is removed from the registry and the command is
\* appended to the backlog of the device_id with outcome queued.
C4_SendFailureQueues ==
    [][(/\ nextCmd' = nextCmd + 1
        /\ Lookup(connected_clients, lastCall'.device_id) # None
        /\ sent' = sent)
       => /\ ~InRegistry(connected_clients',
                         Lookup(connected_clients, lastCall'.device_id))
          /\ Backlog(device_commands', lastCall'.device_id) =
                 Append(Backlog(device_commands, lastCall'.device_id), nextCmd)
          /\ lastCall'.status = "queued"]_vars

\* C5 (dispatch to an unregistered device): a send_command call for a
\* device_id that no registered session has answers queued, appends its
\* command at the tail of the backlog of that device_id, creating the
\* backlog if absent, changes no other backlog entry and writes to no
\* channel.
C5_QueuedWhenAbsent ==
    [][(/\ nextCmd' = nextCmd + 1
        /\ SessionsOf(connected_clients, lastCall'.device_id) = {})
       => /\ lastCall'.status = "queued"
          /\ DOMAIN device_commands' = DOMAIN device_commands \cup {lastCall'.device_id}
          /\ device_commands'[lastCall'.device_id] =
                 Append(Backlog(device_commands, lastCall'.device_id), nextCmd)
          /\ \A dev \in DOMAIN device_commands \ {lastCall'.device_id} :
                 device_commands'[dev] = device_commands[dev]
          /\ sent' = sent]_vars

\* A command was queued behind an earlier one for a device without a
\* session while a session of another device is registered.
C5_Witness ==
    /\ lastCall = Call("X", "queued")
    /\ Len(Backlog(device_commands, "X")) >= 2
    /\ Backlog(device_commands, "X")[Len(Backlog(device_commands, "X"))] = nextCmd - 1
    /\ SessionsOf(connected_clients, "X") = {}
    /\ Len(connected_clients) >= 1

\* C6 (dispatch to a registered device): a send_command call for a
\* device_id that a registered session has, whose channel accepts the send,
\* answers sent, writes the command to that session's channel, and leaves
\* no backlog for that device_id in the queue.
C6_SentLeavesNoBacklog ==
    [][(/\ nextCmd' = nextCmd + 1
        /\ Lookup(connected_clients, lastCall'.device_id) # None
        /\ lastCall'.status # "error")
       => /\ lastCall'.status = "sent"
          /\ sent'[Lookup(connected_clients, lastCall'.device_id)] =
                 Append(sent[Lookup(connected_clients, lastCall'.device_id)],
                        Frame(nextCmd, "dispatch"))
          /\ lastCall'.device_id \notin DOMAIN device_commands']_vars

\* C7 (drain-window ordering): a connection is sent the whole backlog
\* before any command dispatched meanwhile: on no channel does a frame
\* written by send_command precede a frame written by the replay loop.
C7_BacklogFirst ==
    \A c \in Conns : \A i, j \in 1..Len(sent[c]) :
        i < j => ~(sent[c][i].via = "dispatch" /\ sent[c][j].via = "drain")

\* The ways a handshake fails: no frame in time, a frame that is not text,
\* a text that does not parse as an object.
HandshakeFailures == {"timeout", "nontext", "unparsable"}

\* C8 (handshake failure never registers): a connection that awaits its
\* first frame, or whose handshake failed, has never been in the registry
\* and has been sent nothing; the step in which the handshake fails ends
\* the handler and changes neither registry nor queue nor any channel.
C8_HandshakeFailure ==
    /\ [](\A c \in Conns :
             (pc[c] = "await" \/ exit[c] \in HandshakeFailures)
                 => /\ registrations[c] = 0
                    /\ ~InRegistry(connected_clients, c)
                    /\ sent[c] = <<>>)
    /\ [][\A c \in Conns :
             (pc[c] = "await" /\ exit'[c] \in HandshakeFailures)
                 => /\ pc'[c] = "done"
                    /\ UNCHANGED <<connected_clients, device_commands, sent>>]_vars

\* Two handshakes failed, one by timeout and one on an unparsable frame,
\* while a backlog was waiting.
C8_Witness ==
    \E a, b \in Conns :
        /\ exit[a] = "timeout" /\ exit[b] = "unparsable"
        /\ registrations[a] = 0 /\ registrations[b] = 0
        /\ DOMAIN device_commands # {}

\* C9 (teardown on every exit path): a handler that has ended has no entry
\* in the registry, and its entry was deleted as often as it was inserted,
\* at most once; only handlers that are replaying or routing have an entry.
C9_Teardown ==
    \A c \in Conns :
        /\ removals[c] <= 1
        /\ removals[c] <= registrations[c]
        /\ pc[c] = "done" =>
               /\ ~InRegistry(connected_clients, c)
               /\ removals[c] = registrations[c]
        /\ InRegistry(connected_clients, c) =>
               /\ pc[c] \in {"drain", "route"}
               /\ removals[c] = 0

\* One handler ended in its replay by a failed send, another in its routing
\* loop by the peer closing, and both were deleted from the registry.
C9_Witness ==
    \E a, b \in Conns :
        /\ exit[a] = "send_failed" /\ exit[b] = "peer_closed"
        /\ removals[a] = 1 /\ removals[b] = 1
        /\ connected_clients = <<>>

\* C10 (malformed-frame resilience): a text frame that reaches no sink
\* (invalid JSON, not an object, unknown or missing type, an undecodable
\* screen capture) leaves its handler in the routing loop and its session
\* in the registry, and so does the frame handled after it.
C10_MalformedFrame ==
    [][\A c \in Conns :
          (/\ lastFrame' # lastFrame
           /\ lastFrame'.ws = c
           /\ lastFrame'.sink = "none" \/ lastFrame'.afterBad)
          => /\ pc[c] = "route" /\ pc'[c] = "route"
             /\ InRegistry(connected_clients', c)
             /\ connected_clients' = connected_clients]_vars

\* A routing loop handled a malformed frame and then routed a flashlight
\* frame of the same connection to the telemetry sink.
C10_Witness ==
    \E c \in Conns :
        /\ pc[c] = "route"
        /\ InRegistry(connected_clients, c)
        /\ lastFrame = [ws |-> c, sink |-> "telemetry", afterBad |-> TRUE]

\* The registry without the entry of connection c.
Others(cc, c) == SelectSeq(cc, LAMBDA e : e.ws # c)

\* C11 (stale disconnect guard): the step in which a handler ends removes
\* from the registry the entry of its own connection and no other: the
\* entries of all other connections, among them those registered under the
\* same device_id, stay as they were.
C11_OwnSessionOnly ==
    [][\A c \in Conns :
          (pc[c] # "done" /\ pc'[c] = "done")
              => /\ Others(connected_clients', c) = Others(connected_clients, c)
                 /\ ~InRegistry(connected_clients', c)]_vars

\* Only one command was ever dispatched, and it was queued for X.  One
\* connection that registered X ended on the KeyError of line 198 and was
\* deleted from the registry, while the other connection that registered X
\* is still registered and routing.
C11_Witness ==
    \E a, b \in Conns :
        /\ nextCmd = 2 /\ lastCall = Call("X", "queued")
        /\ exit[a] = "key_error" /\ removals[a] = 1 /\ pc[a] = "done"
        /\ pc[b] = "route" /\ device_id[b] = "X"
        /\ connected_clients = <<[ws |-> b, device_id |-> "X"]>>

\* C12 (last-writer-wins lookup): a command that send_command writes to a
\* channel is written to the channel of the connection that registered the
\* addressed device_id last.
C12_NewestReceives ==
    [][\A c \in Conns :
          (/\ nextCmd' = nextCmd + 1
           /\ sent'[c] = Append(sent[c], Frame(nextCmd, "dispatch")))
          => LET S == SessionsOf(connected_clients, lastCall'.device_id)
             IN /\ S # {}
                /\ connected_clients[CHOOSE i \in S : \A j \in S : j <= i].ws = c]_vars

\* C13 (drain removal is atomic with the send): a command that the replay
\* loop of a connection has sent is in no backlog.
C13_SentNotInBacklog ==
    \A c \in Conns : \A k \in Range(Replayed(sent[c])) :
        \A dev \in DOMAIN device_commands : k \notin Range(device_commands[dev])

\* C14 (backlog replay on reconnect): a handler that registers a device_id
\* for which a backlog exists replays that backlog; it handles no inbound
\* frame before its replay has ended; when its replay ends with every send
\* successful, all of the backlog has been sent on its connection and no
\* backlog exists for the device_id; and none exists when it handles a frame.
C14_ReplayBeforeRouting ==
    /\ [](\A c \in Conns : pc[c] \in {"await", "drain"} => lastFrame.ws # c)
    /\ [][\A c \in Conns :
             /\ (/\ pc[c] = "await"
                 /\ InRegistry(connected_clients', c)
                 /\ device_id'[c] \in DOMAIN device_commands)
                => /\ pc'[c] = "drain"
                   /\ iter'[c].list = device_commands[device_id'[c]]
             /\ (pc[c] = "drain" /\ pc'[c] = "route")
                => /\ Replayed(sent'[c]) = iter[c].list
                   /\ device_id[c] \notin DOMAIN device_commands'
             /\ (pc[c] = "drain" /\ exit'[c] = "key_error")
                => device_id[c] \notin DOMAIN device_commands'
             /\ (lastFrame' # lastFrame /\ lastFrame'.ws = c)
                => /\ pc[c] = "route"
                   /\ device_id[c] \notin DOMAIN device_commands]_vars

\* A connection registered X, was sent the two queued commands in their
\* order and then had a command_response frame routed, and the queue holds
\* no backlog for X.
C14_Witness ==
    \E c \in Conns :
        /\ pc[c] = "route" /\ device_id[c] = "X"
        /\ sent[c] = <<Frame(1, "drain"), Frame(2, "drain")>>
        /\ lastFrame = [ws |-> c, sink |-> "response", afterBad |-> FALSE]
        /\ "X" \notin DOMAIN device_commands

\* C15 (a drain never tears down a healthy connection): a handler in its
\* replay ends only because a send on its own connection failed.
C15_DrainCompletes ==
    [][\A c \in Conns :
          (pc[c] = "drain" /\ pc'[c] = "done") => exit'[c] = "send_failed"]_vars

\* The failures of a connection: those of the handshake, a failed send of
\* the replay, a transport error in the routing loop.
ConnectionFailures == HandshakeFailures \cup {"send_failed", "transport_error"}

\* C16 (failure isolation): the step in which a connection fails changes no
\* backlog, and leaves every other connection where it was: its handler at
\* the same position, its session in the registry if it was there, its
\* channel and device_id as they were.
C16_FailureIsolation ==
    [][\A c \in Conns :
          (pc[c] # "done" /\ pc'[c] = "done" /\ exit'[c] \in ConnectionFailures)
              => /\ device_commands' = device_commands
                 /\ \A b \in Conns \ {c} :
                        /\ pc'[b] = pc[b]
                        /\ InRegistry(connected_clients', b) <=> InRegistry(connected_clients, b)
                        /\ sent'[b] = sent[b]
                        /\ device_id'[b] = device_id[b]]_vars

\* One connection failed on a send of its replay while another connection,
\* registered under X, goes on with its own replay of the backlog of X.
C16_Witness ==
    \E a, b \in Conns :
        /\ exit[a] = "send_failed" /\ pc[a] = "done"
        /\ pc[b] = "drain" /\ device_id[b] = "X"
        /\ InRegistry(connected_clients, b)
        /\ "X" \in DOMAIN device_commands

\* C17 (routing leaves shared state unchanged): the handling of an inbound
\* frame changes neither the registry nor the queue nor any handler's
\* device_id or position; the registry changes only by the insertion of a
\* connection whose handshake succeeds and by the removal of a connection
\* whose handler ends; a routing handler keeps its device_id and goes
\* nowhere but to its end.
C17_RoutingFrame ==
    [][/\ \A c \in Conns :
              (lastFrame' # lastFrame /\ lastFrame'.ws = c)
                  => UNCHANGED <<connected_clients, device_commands, device_id, pc>>
       /\ connected_clients' # connected_clients
              => \E c \in Conns :
                    \/ /\ pc[c] = "await" /\ pc'[c] \in {"drain", "route"}
                       /\ connected_clients' =
                              Append(connected_clients,
                                     [ws |-> c, device_id |-> device_id'[c]])
                    \/ /\ pc[c] \in {"drain", "route"} /\ pc'[c] = "done"
                       /\ connected_clients' = Others(connected_clients, c)
       /\ \A c \in Conns :
              pc[c] = "route"
                  => \/ pc'[c] = "done"
                     \/ /\ pc'[c] = "route"
                        /\ device_id'[c] = device_id[c]
                        /\ InRegistry(connected_clients', c)]_vars

\* The one registered session, under X, had a frame handled that reached no
\* sink, and is registered under X as before.
C17_Witness ==
    \E c \in Conns :
        /\ pc[c] = "route" /\ device_id[c] = "X"
        /\ lastFrame = [ws |-> c, sink |-> "none", afterBad |-> FALSE]
        /\ connected_clients = <<[ws |-> c, device_id |-> "X"]>>

\* C18 (fallback identifier): a session is registered under the identifier
\* its registration message gives or, when it gives none, under device_<n>
\* with n the number of sessions in the registry before its insertion.
C18_FallbackId ==
    [][\A c \in Conns :
          (pc[c] = "await" /\ InRegistry(connected_clients', c))
              => /\ connected_clients'[Len(connected_clients')] =
                        [ws |-> c, device_id |-> device_id'[c]]
                 /\ \/ device_id'[c] \in ExplicitIds
                    \/ device_id'[c] = FallbackId(Len(connected_clients))]_vars

\* Two sessions are registered at the same time under the same fallback
\* identifier.
C18_Witness ==
    \E i, j \in 1..Len(connected_clients) :
        /\ i # j
        /\ connected_clients[i].device_id = connected_clients[j].device_id
        /\ connected_clients[i].device_id \notin ExplicitIds

\* C19 (backlog and routing exclude each other): while a non-empty backlog
\* exists for a device_id, every session registered under it is in its
\* replay, none in the routing loop; and a backlog grows only in a state
\* in which no session is registered under its device_id.
C19_BacklogExcludesRouting ==
    /\ [](\A dev \in DOMAIN device_commands :
             device_commands[dev] # <<>>
                 => \A i \in SessionsOf(connected_clients, dev) :
                        pc[connected_clients[i].ws] = "drain")
    /\ [][\A dev \in DOMAIN device_commands' :
             Len(device_commands'[dev]) > Len(Backlog(device_commands, dev))
                 => SessionsOf(connected_clients, dev) = {}]_vars

\* A session registered under X has replayed two commands of the backlog
\* of X, which is still in the queue, while a session registered under
\* another identifier is in its routing loop.
C19_Witness ==
    \E c, b \in Conns :
        /\ pc[c] = "drain" /\ device_id[c] = "X" /\ iter[c].idx = 2
        /\ Len(Backlog(device_commands, "X")) >= 2
        /\ pc[b] = "route" /\ device_id[b] = FallbackId(0)

====
